---- MODULE Spec2Model ----
(***************************************************************************)
(* Model of the NiftyMIC ADMM super-resolution-reconstruction solver       *)
(* (ADMMSolver.py) on a one-dimensional reconstruction grid of NVoxels     *)
(* voxels.  Samples are exact rationals <<numerator, denominator>>,        *)
(* Python numbers carry their type (int / float) because str() formats     *)
(* the two differently, and Python strings are sequences of one-character  *)
(* strings so that str.replace can be computed character by character.     *)
(***************************************************************************)
EXTENDS Integers, Sequences, FiniteSets, TLC

VARIABLES
    solver,     \* the fields of the ADMMSolver object
    vols,       \* the Volume objects of the caller: id -> [itk, sitk, spacing]
    stackObjs,  \* the Stack objects of the caller: id -> sequence of slices
    pc,         \* position inside _run_reconstruction: "idle" or a step of it
    admm,       \* the ADMMLinearSolver built by the run in progress
    runs,       \* number of _run_reconstruction calls started
    nsets,      \* number of setter and motion-correction calls made
    hist,       \* the last operation, and what the last run read and wrote
    solver2,    \* a second ADMMSolver object (configuration comparison)
    fname,      \* the strings last returned by get_setting_specific_filename
    main,       \* the locals of the reconstruction script's main function
    error,      \* the exception that ended the script, NoError while it runs
    probe       \* a volume, a vector field and their images under D and D*

vars == <<solver, vols, stackObjs, pc, admm, runs, nsets, hist, solver2, fname, main, error, probe>>

-----------------------------------------------------------------------------
(* Exact rational arithmetic: a rational is <<n, d>> with d > 0, reduced.  *)

Abs(n) == IF n < 0 THEN -n ELSE n

RECURSIVE GCD(_, _)
GCD(a, b) == IF b = 0 THEN a ELSE GCD(b, a % b)

Norm(n, d) ==
    LET s == IF d < 0 THEN -1 ELSE 1
        g == GCD(Abs(n), Abs(d))
    IN  IF n = 0 THEN <<0, 1>> ELSE <<(s * n) \div g, (s * d) \div g>>

RZero == <<0, 1>>
RInt(n) == <<n, 1>>
RAdd(a, b) ==
    LET g == GCD(a[2], b[2])
    IN  Norm(a[1] * (b[2] \div g) + b[1] * (a[2] \div g), (a[2] \div g) * b[2])
RNeg(a) == <<-a[1], a[2]>>
RSub(a, b) == RAdd(a, RNeg(b))
RMul(a, b) ==
    LET g == GCD(Abs(a[1]), b[2])
        h == GCD(Abs(b[1]), a[2])
    IN  IF a[1] = 0 \/ b[1] = 0 THEN <<0, 1>>
        ELSE <<(a[1] \div g) * (b[1] \div h), (a[2] \div h) * (b[2] \div g)>>
RDiv(a, b) == IF b[1] < 0 THEN RMul(a, <<-b[2], -b[1]>>)
              ELSE RMul(a, <<b[2], b[1]>>)
RLess(a, b) == a[1] * b[2] < b[1] * a[2]
RLeq(a, b) == a[1] * b[2] <= b[1] * a[2]
RAbs(a) == <<Abs(a[1]), a[2]>>
RSign(a) == IF a[1] > 0 THEN RInt(1) ELSE IF a[1] < 0 THEN RInt(-1) ELSE RZero
RMax(a, b) == IF RLess(a, b) THEN b ELSE a

-----------------------------------------------------------------------------
(* Python numbers and strings.                                             *)

PyInt(n) == [ty |-> "int", num |-> n, den |-> 1]
PyFloat(n, d) == [ty |-> "float", num |-> Norm(n, d)[1], den |-> Norm(n, d)[2]]
PyVal(p) == <<p.num, p.den>>
\* Python's == on numbers compares values, whatever the types
PyEq(p, q) == p.num * q.den = q.num * p.den

DigitChar(d) == <<"0", "1", "2", "3", "4", "5", "6", "7", "8", "9">>[d + 1]

RECURSIVE StrNat(_)
StrNat(n) == IF n < 10 THEN <<DigitChar(n)>>
             ELSE StrNat(n \div 10) \o <<DigitChar(n % 10)>>

StrInt(n) == IF n < 0 THEN <<"-">> \o StrNat(-n) ELSE StrNat(n)

\* digits of the fractional part rem/den, by long division, at most k of them
RECURSIVE FracDigits(_, _, _)
FracDigits(rem, den, k) ==
    IF rem = 0 \/ k = 0 THEN <<>>
    ELSE <<DigitChar((rem * 10) \div den)>>
         \o FracDigits((rem * 10) % den, den, k - 1)

\* Python 2 str(float): "%.12g" plus ".0" when no fractional digit is left;
\* every float of the model has fewer than 12 significant digits
StrFloat(num, den) ==
    LET a == Abs(num)
        f == FracDigits(a % den, den, 12)
    IN  (IF num < 0 THEN <<"-">> ELSE <<>>)
        \o StrNat(a \div den) \o <<".">>
        \o (IF f = <<>> THEN <<"0">> ELSE f)

str(p) == IF p.ty = "int" THEN StrInt(p.num) ELSE StrFloat(p.num, p.den)

replace(s, old, new) ==
    [i \in 1..Len(s) |-> IF s[i] = old THEN new ELSE s[i]]

-----------------------------------------------------------------------------
(* The objects of the caller: Volumes and Stacks.                          *)

None == <<>>

\* the value of error while no exception has been raised
NoError == "no error"

Voxels == 1..2
VolIds == 1..2
StackIds == 1..2

\* samples of the two Volume objects when the caller hands them over
InitialVols ==
    [id \in VolIds |->
        IF id = 1
        THEN [itk |-> <<RInt(1), RInt(3)>>, sitk |-> <<RInt(1), RInt(3)>>,
              spacing |-> RInt(1)]
        ELSE [itk |-> <<RInt(4), RInt(0)>>, sitk |-> <<RInt(4), RInt(0)>>,
              spacing |-> RInt(2)]]

\* a slice carries its intensity, as its motion transform the voxel of the
\* reconstruction grid it images (0: it lies outside the grid), and the
\* number of pixels of its mask (its intensity array has one pixel)
InitialStacks ==
    [id \in StackIds |->
        IF id = 1
        THEN <<[val |-> RInt(2), pos |-> 1, mask |-> 1],
               [val |-> RInt(6), pos |-> 2, mask |-> 1]>>
        ELSE <<[val |-> RInt(4), pos |-> 0, mask |-> 1]>>]

-----------------------------------------------------------------------------
(* ADMMSolver: construction and configuration string.                      *)

ADMMSolver(stacks, reconstruction, alpha, iter_max, minimizer, rho, iterations) ==
    [stacks |-> stacks,
     reconstruction |-> reconstruction,
     alpha_cut |-> PyInt(3),
     alpha |-> alpha,
     iter_max |-> iter_max,
     minimizer |-> minimizer,
     deconvolution_mode |-> "full_3D",
     predefined_covariance |-> None,
     verbose |-> 0,
     residual_ell2 |-> None,
     residual_prior |-> None,
     computational_time |-> None,
     rho |-> rho,
     iterations |-> iterations]

get_setting_specific_filename(self, prefix) ==
    LET filename ==
            prefix
            \o <<"s", "t", "a", "c", "k", "s">> \o str(PyInt(Len(self.stacks)))
            \o (IF self.alpha.num > 0
                THEN <<"_", "A", "D", "M", "M">> \o <<"_", "T", "V">>
                ELSE <<>>)
            \o <<"_">> \o self.minimizer
            \o <<"_", "a", "l", "p", "h", "a">> \o str(self.alpha)
            \o <<"_", "i", "t", "e", "r", "m", "a", "x">> \o str(self.iter_max)
            \o <<"_", "r", "h", "o">> \o str(self.rho)
            \o <<"_", "A", "D", "M", "M", "i", "t", "e", "r", "a", "t", "i",
                 "o", "n", "s">> \o str(self.iterations)
    IN  replace(filename, ".", "p")

\* the default prefix of get_setting_specific_filename
Prefix == <<"S", "R", "R", "_">>

lsmr == <<"l", "s", "m", "r">>
LBFGSB == <<"L", "-", "B", "F", "G", "S", "-", "B">>

-----------------------------------------------------------------------------
(* Vectors of rationals.                                                   *)

VAdd(a, b) == [i \in 1..Len(a) |-> RAdd(a[i], b[i])]
VSub(a, b) == [i \in 1..Len(a) |-> RSub(a[i], b[i])]
VScale(c, a) == [i \in 1..Len(a) |-> RMul(c, a[i])]
VZero(n) == [i \in 1..n |-> RZero]

RECURSIVE DotFrom(_, _, _)
DotFrom(a, b, i) ==
    IF i > Len(a) THEN RZero
    ELSE RAdd(RMul(a[i], b[i]), DotFrom(a, b, i + 1))
Dot(a, b) == DotFrom(a, b, 1)

RECURSIVE VMaxFrom(_, _)
VMaxFrom(a, i) ==
    IF i = Len(a) THEN a[i] ELSE RMax(a[i], VMaxFrom(a, i + 1))
VMax(a) == VMaxFrom(a, 1)

-----------------------------------------------------------------------------
(* The operators the solver builds at the start of a reconstruction.       *)

\* the slices of a list of stacks, in stack order, then slice order
RECURSIVE Slices(_, _)
Slices(objs, ids) ==
    IF ids = <<>> THEN <<>>
    ELSE objs[Head(ids)] \o Slices(objs, Tail(ids))

\* A: the intensity each slice predicts for volume x (0 outside the grid)
get_A(sl, x) ==
    [k \in 1..Len(sl) |-> IF sl[k].pos \in Voxels THEN x[sl[k].pos] ELSE RZero]

\* A_adj: the slice residuals summed back into the volume, slice by slice
RECURSIVE AdjFrom(_, _, _, _)
AdjFrom(sl, r, i, k) ==
    IF k > Len(sl) THEN RZero
    ELSE RAdd(IF sl[k].pos = i THEN r[k] ELSE RZero, AdjFrom(sl, r, i, k + 1))
get_A_adj(sl, r) == [i \in Voxels |-> AdjFrom(sl, r, i, 1)]

\* b: the observed slice intensities
get_b(sl) == [k \in 1..Len(sl) |-> sl[k].val]

\* x0: the samples of the current reconstruction
get_x0(self, vs) == vs[self.reconstruction].sitk

\* forward differences scaled by the spacing, zero at the last voxel
grad(x, h) ==
    [i \in 1..Len(x) |->
        IF i < Len(x) THEN RDiv(RSub(x[i + 1], x[i]), h) ELSE RZero]

\* negative backward differences at every voxel, the last one included
grad_adj_backward(z, h) ==
    [i \in 1..Len(z) |->
        IF i = 1 THEN RDiv(RNeg(z[1]), h)
        ELSE RDiv(RSub(z[i - 1], z[i]), h)]

\* negative backward differences, the last voxel taking what its
\* predecessor gave
grad_adj(z, h) ==
    [i \in 1..Len(z) |->
        IF i = 1 THEN RDiv(RNeg(z[1]), h)
        ELSE IF i < Len(z) THEN RDiv(RSub(z[i - 1], z[i]), h)
        ELSE RDiv(z[i - 1], h)]

-----------------------------------------------------------------------------
(* ADMMLinearSolver: the x-update (regularised least squares, at most      *)
(* iter_max iterations of LSMR warm-started at x), the v-update and the    *)
(* dual update.  s is the linear solver's state.                           *)

\* the normal-equations operator  A_adj A + rho B_adj B
NormalOp(s, x) ==
    VAdd(get_A_adj(s.A, get_A(s.A, x)),
         VScale(s.rho, grad_adj(grad(x, s.spacing), s.spacing)))

\* its right-hand side  A_adj b + rho B_adj (v - mu / rho)
NormalRhs(s) ==
    VAdd(get_A_adj(s.A, s.b),
         VScale(s.rho,
                grad_adj(VSub(s.v, VScale(RDiv(RInt(1), s.rho), s.mu)),
                         s.spacing)))

UnitVec(i) == [j \in Voxels |-> IF j = i THEN RInt(1) ELSE RZero]

\* LSMR in exact arithmetic on the two unknowns of the grid: no iteration
\* leaves x; the first iterate minimises the normal-equations residual along
\* it; the second is the least-squares solution
lsmr_solve(s, iter_max) ==
    LET g   == VSub(NormalRhs(s), NormalOp(s, s.x))
        Ng  == NormalOp(s, g)
        x1  == VAdd(s.x, VScale(RDiv(Dot(g, Ng), Dot(Ng, Ng)), g))
        c1  == NormalOp(s, UnitVec(1))
        c2  == NormalOp(s, UnitVec(2))
        r   == NormalRhs(s)
        det == RSub(RMul(c1[1], c2[2]), RMul(c2[1], c1[2]))
    IN  IF iter_max <= 0 \/ g = VZero(2) THEN s.x
        ELSE IF iter_max = 1 \/ det = RZero THEN x1
        ELSE <<RDiv(RSub(RMul(r[1], c2[2]), RMul(c2[1], r[2])), det),
               RDiv(RSub(RMul(c1[1], r[2]), RMul(r[1], c1[2])), det)>>

\* a soft threshold that loses the sign
shrink_unsigned(z, t) == RMax(RSub(RAbs(z), t), RZero)

\* elementwise soft threshold
shrink(z, t) == RMul(RSign(z), RMax(RSub(RAbs(z), t), RZero))

x_update(s) == lsmr_solve(s, s.iter_max)

\* a v-update that thresholds the gradient of the initial volume
v_update_stale(s) ==
    LET z == VAdd(grad(s.x0, s.spacing), VScale(RDiv(RInt(1), s.rho), s.mu))
    IN  [i \in 1..Len(z) |-> shrink(z[i], RDiv(s.alpha, s.rho))]

v_update(s) ==
    LET z == VAdd(grad(s.x, s.spacing), VScale(RDiv(RInt(1), s.rho), s.mu))
    IN  [i \in 1..Len(z) |-> shrink(z[i], RDiv(s.alpha, s.rho))]

dual_update(s) ==
    VAdd(s.mu, VScale(s.rho, VSub(grad(s.x, s.spacing), s.v)))

\* construction: x = x0, v = B x0, mu = 0
ADMMLinearSolver(A, b, x0, x_scale, spacing, alpha, data_loss, minimizer, iter_max, rho, iterations) ==
    [A |-> A, b |-> b, x0 |-> x0, x_scale |-> x_scale, spacing |-> spacing,
     alpha |-> alpha, data_loss |-> data_loss, minimizer |-> minimizer,
     iter_max |-> iter_max, rho |-> rho, iterations |-> iterations,
     x |-> x0, v |-> grad(x0, spacing), mu |-> VZero(Len(x0)), t |-> 0,
     inner |-> 0]

\* the arguments a linear solver was constructed with
Arguments(s) ==
    [A |-> s.A, b |-> s.b, x0 |-> s.x0, x_scale |-> s.x_scale,
     spacing |-> s.spacing, alpha |-> s.alpha, data_loss |-> s.data_loss,
     minimizer |-> s.minimizer, iter_max |-> s.iter_max, rho |-> s.rho,
     iterations |-> s.iterations]

\* the x-update has converged: x solves its normal equations
Converged(s) == NormalOp(s, s.x) = NormalRhs(s)

\* an x-update step that solves once more when the first solve has not
\* converged
admm_x_step_retrying(s) ==
    LET s1 == [s EXCEPT !.x = x_update(s)]
    IN  IF Converged(s1) THEN [s1 EXCEPT !.inner = @ + 1]
        ELSE [s1 EXCEPT !.x = x_update(s1), !.inner = @ + 2]

\* an x-update step that takes a new scale from the x it has just computed
admm_x_step_rescaling(s) ==
    [s EXCEPT !.x = x_update(s), !.inner = @ + 1, !.x_scale = VMax(x_update(s))]

\* the x-update step of an outer iteration: one inner solve, whose x is kept
admm_x_step(s) == [s EXCEPT !.x = x_update(s), !.inner = @ + 1]

-----------------------------------------------------------------------------
(* ADMMSolver: setters, statistics and _run_reconstruction.                *)

set_alpha(self, alpha) == [self EXCEPT !.alpha = alpha]
set_iter_max(self, iter_max) == [self EXCEPT !.iter_max = iter_max]
set_stacks(self, stacks) == [self EXCEPT !.stacks = stacks]
set_reconstruction(self, reconstruction) ==
    [self EXCEPT !.reconstruction = reconstruction]
\* a set_rho that also drops the stored statistic
set_rho_dropping_statistics(self, rho) ==
    [self EXCEPT !.rho = rho, !.residual_ell2 = None]

set_rho(self, rho) == [self EXCEPT !.rho = rho]
get_reconstruction(self) == self.reconstruction
set_iterations(self, iterations) == [self EXCEPT !.iterations = iterations]

\* the squared l2 norm of A x - b over the slices of the solver's stacks
get_residual_ell2(self, objs, x) ==
    LET sl == Slices(objs, self.stacks)
        r  == VSub(get_A(sl, x), get_b(sl))
    IN  Dot(r, r)

\* a compute_statistics that stores the masked array back into the volume
compute_statistics_masking(self, vs, objs) ==
    LET sl == Slices(objs, self.stacks)
        seen == get_A_adj(sl, [k \in 1..Len(sl) |-> RInt(1)])
        x == vs[self.reconstruction].sitk
        masked == [i \in Voxels |-> IF seen[i] = RZero THEN RZero ELSE x[i]]
    IN  [solver |-> [self EXCEPT !.residual_ell2 =
                        get_residual_ell2(self, objs, masked)],
         vols |-> [vs EXCEPT ![self.reconstruction].sitk = masked]]

\* compute_statistics: what it leaves of the solver and of the volumes
compute_statistics(self, vs, objs) ==
    LET reconstruction_nda_vec == vs[self.reconstruction].sitk
    IN  [solver |-> [self EXCEPT !.residual_ell2 =
                        get_residual_ell2(self, objs, reconstruction_nda_vec)],
         vols |-> vs]

\* a build_solver that starts from scratch (zero volume)
build_solver_from_scratch(self, vs, objs) ==
    LET sl == Slices(objs, self.stacks)
        x0 == VZero(Len(get_x0(self, vs)))
    IN  ADMMLinearSolver(sl, get_b(sl), x0, VMax(x0),
                         vs[self.reconstruction].spacing,
                         PyVal(self.alpha), "linear", lsmr,
                         self.iter_max.num, PyVal(self.rho),
                         self.iterations.num)

\* a build_solver that asks for one outer iteration too many
build_solver_one_more(self, vs, objs) ==
    LET sl == Slices(objs, self.stacks)
        x0 == get_x0(self, vs)
    IN  ADMMLinearSolver(sl, get_b(sl), x0, VMax(x0),
                         vs[self.reconstruction].spacing,
                         PyVal(self.alpha), "linear", lsmr,
                         self.iter_max.num, PyVal(self.rho),
                         self.iterations.num + 1)

\* a build_solver that asks for a robust data loss
build_solver_huber(self, vs, objs) ==
    LET sl == Slices(objs, self.stacks)
        x0 == get_x0(self, vs)
    IN  ADMMLinearSolver(sl, get_b(sl), x0, VMax(x0),
                         vs[self.reconstruction].spacing,
                         PyVal(self.alpha), "huber", lsmr,
                         self.iter_max.num, PyVal(self.rho),
                         self.iterations.num)

\* a build_solver that keeps the operators and the initial value it derived
\* when the solver was constructed
build_solver_cached(self, vs, objs) ==
    LET sl == Slices(InitialStacks, <<1, 2>>)
        x0 == InitialVols[1].sitk
    IN  ADMMLinearSolver(sl, get_b(sl), x0, VMax(x0),
                         InitialVols[1].spacing,
                         PyVal(self.alpha), "linear", lsmr,
                         self.iter_max.num, PyVal(self.rho),
                         self.iterations.num)

\* a build_solver that hands the configured minimizer to the linear solver
build_solver_configured(self, vs, objs) ==
    LET sl == Slices(objs, self.stacks)
        x0 == get_x0(self, vs)
    IN  ADMMLinearSolver(sl, get_b(sl), x0, VMax(x0),
                         vs[self.reconstruction].spacing,
                         PyVal(self.alpha), "linear", self.minimizer,
                         self.iter_max.num, PyVal(self.rho),
                         self.iterations.num)

\* _run_reconstruction up to the construction of the linear solver
build_solver(self, vs, objs) ==
    LET sl == Slices(objs, self.stacks)
        x0 == get_x0(self, vs)
    IN  ADMMLinearSolver(sl, get_b(sl), x0, VMax(x0),
                         vs[self.reconstruction].spacing,
                         PyVal(self.alpha), "linear", lsmr,
                         self.iter_max.num, PyVal(self.rho),
                         self.iterations.num)

\* the geometry error, if any, that building the operators meets
build_error(self, vs, objs) ==
    LET sl == Slices(objs, self.stacks)
    IN  IF \E k \in 1..Len(sl) : sl[k].mask # 1
        THEN "DimensionMismatchError"
        ELSE IF ~RLess(RZero, vs[self.reconstruction].spacing)
        THEN "InvalidGeometryError"
        ELSE NoError

Operators == <<"A", "A_adj", "grad", "grad_adj">>

\* a _run_reconstruction that builds its operators before they are checked
run_reconstruction_entry_late(self, vs, objs) ==
    [error |-> build_error(self, vs, objs), built |-> Operators, admm |-> None,
     stackObjs |-> objs]

\* a _run_reconstruction that blanks, in place, the slices that lie outside
\* the grid
run_reconstruction_entry_blanking(self, vs, objs) ==
    LET blanked == [id \in DOMAIN objs |->
                       [k \in DOMAIN objs[id] |->
                           IF objs[id][k].pos \in Voxels THEN objs[id][k]
                           ELSE [objs[id][k] EXCEPT !.val = RZero]]]
    IN  [error |-> build_error(self, vs, objs), built |-> Operators,
         admm |-> build_solver(self, vs, blanked), stackObjs |-> blanked]

\* _run_reconstruction up to solver.run(): the error that ends it, or the
\* operators and the linear solver it has built; and the slices as it
\* leaves them
run_reconstruction_entry(self, vs, objs) ==
    LET e == build_error(self, vs, objs)
    IN  IF e # NoError
        THEN [error |-> e, built |-> <<>>, admm |-> None, stackObjs |-> objs]
        ELSE [error |-> NoError, built |-> Operators,
              admm |-> build_solver(self, vs, objs), stackObjs |-> objs]

get_itk_image_from_array_vec(x, itk) == x
get_sitk_from_itk_image(itk) == itk

\* an update_volume that forgets to refresh the sitk image
update_volume_itk_only(self, vs, x) ==
    [vs EXCEPT ![self.reconstruction].itk =
        get_itk_image_from_array_vec(x, vs[self.reconstruction].itk)]

\* an update_volume that puts the result into another Volume object
update_volume_into_other(self, vs, x) ==
    LET other == (self.reconstruction % Len(vs)) + 1
        itk == get_itk_image_from_array_vec(x, vs[other].itk)
    IN  [vs EXCEPT ![other].itk = itk,
                   ![other].sitk = get_sitk_from_itk_image(itk)]

\* an update_volume that refreshes the sitk image only
update_volume_sitk_only(self, vs, x) ==
    [vs EXCEPT ![self.reconstruction].sitk =
        get_sitk_from_itk_image(
            get_itk_image_from_array_vec(x, vs[self.reconstruction].itk))]

\* _run_reconstruction after the linear solver has returned x
update_volume(self, vs, x) ==
    LET itk == get_itk_image_from_array_vec(x, vs[self.reconstruction].itk)
    IN  [vs EXCEPT ![self.reconstruction].itk = itk,
                   ![self.reconstruction].sitk = get_sitk_from_itk_image(itk)]

-----------------------------------------------------------------------------
(* Bounds and the values the caller chooses from.                          *)

MaxRuns == 2
MaxSets == 1

Alphas == {PyInt(1), PyFloat(1, 2)}
IterMaxs == {PyInt(0), PyInt(10)}
Rhos == {PyFloat(1, 2), PyInt(1)}
IterationCounts == {PyInt(0), PyInt(1)}
StackLists == {<<1>>, <<1, 2>>}
Positions == {0} \cup Voxels

\* the Volume object the solver was constructed with
HR_volume == 1

NoHist == [op |-> "init", x0 |-> None, entry |-> None, written |-> None, given |-> HR_volume, built |-> <<>>, last |-> None]

-----------------------------------------------------------------------------
(* The solver's life: the caller sets parameters, runs reconstructions and *)
(* asks for statistics; a reconstruction is in progress while pc # "idle". *)

Init ==
    /\ \E m \in {lsmr, LBFGSB} :
          solver = ADMMSolver(<<1, 2>>, 1, PyFloat(1, 2), PyInt(10), m,
                              PyFloat(1, 2), PyInt(1))
    /\ vols = InitialVols
    /\ stackObjs = InitialStacks
    /\ pc = "idle"
    /\ admm = None
    /\ runs = 0
    /\ nsets = 0
    /\ hist = NoHist
    /\ solver2 = None
    /\ fname = <<None, None>>
    /\ main = None
    /\ error = NoError
    /\ probe = None

Setter(self, h) ==
    /\ pc = "idle"
    /\ nsets < MaxSets
    /\ solver' = self
    /\ nsets' = nsets + 1
    /\ hist' = h
    /\ UNCHANGED <<vols, stackObjs, pc, admm, runs, solver2, fname,
                 main, error, probe>>

Op(name) == [hist EXCEPT !.op = name]

SetAlpha == \E a \in Alphas : Setter(set_alpha(solver, a), Op("set_alpha"))

SetIterMax ==
    \E n \in IterMaxs : Setter(set_iter_max(solver, n), Op("set_iter_max"))

SetStacks ==
    \E l \in StackLists : Setter(set_stacks(solver, l), Op("set_stacks"))

SetReconstruction ==
    \E v \in VolIds :
        Setter(set_reconstruction(solver, v),
               [hist EXCEPT !.op = "set_reconstruction", !.written = None,
                            !.given = v])

SetRho == \E r \in Rhos : Setter(set_rho(solver, r), Op("set_rho"))

SetIterations ==
    \E n \in IterationCounts :
        Setter(set_iterations(solver, n), Op("set_iterations"))

\* the caller's registration step moves one slice
UpdateMotionCorrection ==
    /\ pc = "idle"
    /\ nsets < MaxSets
    /\ \E id \in StackIds : \E k \in 1..Len(stackObjs[id]) : \E q \in Positions :
          stackObjs' = [stackObjs EXCEPT ![id][k].pos = q]
    /\ nsets' = nsets + 1
    /\ hist' = Op("update_motion_correction")
    /\ UNCHANGED <<solver, vols, pc, admm, runs, solver2, fname,
                 main, error, probe>>

ComputeStatistics ==
    /\ pc = "idle"
    /\ LET out == compute_statistics(solver, vols, stackObjs)
       IN  solver' = out.solver /\ vols' = out.vols
    /\ hist' = Op("compute_statistics")
    /\ UNCHANGED <<stackObjs, pc, admm, runs, nsets, solver2, fname,
                 main, error, probe>>

\* _run_reconstruction, entry: operators and linear solver are built
RunBegin(maxRuns) ==
    /\ pc = "idle"
    /\ runs < maxRuns
    /\ LET e == run_reconstruction_entry(solver, vols, stackObjs)
       IN  /\ e.error = NoError
           /\ admm' = e.admm
           /\ stackObjs' = e.stackObjs
           /\ hist' = [hist EXCEPT !.op = "run", !.x0 = e.admm.x0,
                                   !.entry = vols[solver.reconstruction],
                                   !.built = e.built]
    /\ pc' = "loop"
    /\ runs' = runs + 1
    /\ UNCHANGED <<solver, vols, nsets, solver2, fname, main, error, probe>>

\* one outer iteration of the linear solver: x-update ...
XUpdate ==
    /\ pc = "loop"
    /\ admm.t < admm.iterations
    /\ admm' = admm_x_step(admm)
    /\ pc' = "v_update"
    /\ UNCHANGED <<solver, vols, stackObjs, runs, nsets, hist, solver2, fname,
                 main, error, probe>>

\* ... v-update ...
VUpdate ==
    /\ pc = "v_update"
    /\ admm' = [admm EXCEPT !.v = v_update(admm)]
    /\ pc' = "dual_update"
    /\ UNCHANGED <<solver, vols, stackObjs, runs, nsets, hist, solver2, fname,
                 main, error, probe>>

\* ... and dual update
DualUpdate ==
    /\ pc = "dual_update"
    /\ admm' = [admm EXCEPT !.mu = dual_update(admm), !.t = admm.t + 1]
    /\ pc' = "loop"
    /\ UNCHANGED <<solver, vols, stackObjs, runs, nsets, hist, solver2, fname,
                 main, error, probe>>

\* _run_reconstruction, exit: the linear solver has returned, the volume is
\* updated
UpdateVolume ==
    /\ pc = "loop"
    /\ admm.t >= admm.iterations
    /\ solver' = [solver EXCEPT !.computational_time = "measured"]
    /\ vols' = update_volume(solver, vols, admm.x)
    /\ pc' = "idle"
    /\ admm' = None
    /\ hist' = [hist EXCEPT !.op = "run", !.written = admm.x,
                            !.last = Arguments(admm)]
    /\ UNCHANGED <<stackObjs, runs, nsets, solver2, fname,
                 main, error, probe>>

Next ==
    \/ SetAlpha \/ SetIterMax \/ SetStacks \/ SetReconstruction
    \/ SetRho \/ SetIterations
    \/ UpdateMotionCorrection
    \/ ComputeStatistics
    \/ RunBegin(MaxRuns)
    \/ XUpdate \/ VUpdate \/ DualUpdate \/ UpdateVolume

Spec == Init /\ [][Next]_vars

\* a step of the reconstruction in progress: it moves pc
Advance ==
    /\ pc # "idle"
    /\ pc' \in {"idle", "loop", "v_update", "dual_update"} \ {pc}

\* a reconstruction in progress is never abandoned: the solver is
\* single-threaded and nothing interrupts it
LiveSpec == Spec /\ WF_pc(Advance)

-----------------------------------------------------------------------------
(* Two solver objects and their configuration strings.                     *)

LdotB == <<"L", ".", "B">>
LpB == <<"L", "p", "B">>

NameConfigs ==
    {ADMMSolver(l, 1, a, im, m, r, n) :
        l \in StackLists,
        a \in {PyInt(0), PyInt(1), PyFloat(1, 1), PyFloat(1, 2)},
        im \in {PyInt(1), PyInt(10)},
        m \in {lsmr, LdotB, LpB},
        r \in {PyFloat(1, 2), PyInt(1)},
        n \in {PyInt(10)}}

InitFilename ==
    /\ solver \in NameConfigs
    /\ solver2 \in NameConfigs
    /\ fname = <<None, None>>
    /\ main = None
    /\ error = NoError
    /\ probe = None
    /\ vols = InitialVols
    /\ stackObjs = InitialStacks
    /\ pc = "idle"
    /\ admm = None
    /\ runs = 0
    /\ nsets = 0
    /\ hist = NoHist

GetFilename1 ==
    /\ fname' = [fname EXCEPT ![1] = get_setting_specific_filename(solver, Prefix)]
    /\ UNCHANGED <<solver, vols, stackObjs, pc, admm, runs, nsets, hist, solver2,
                 main, error, probe>>

GetFilename2 ==
    /\ fname' = [fname EXCEPT ![2] = get_setting_specific_filename(solver2, Prefix)]
    /\ UNCHANGED <<solver, vols, stackObjs, pc, admm, runs, nsets, hist, solver2,
                 main, error, probe>>

NextFilename == GetFilename1 \/ GetFilename2

SpecFilename == InitFilename /\ [][NextFilename]_vars

-----------------------------------------------------------------------------
(* Continuation: one solver runs twice with N outer iterations; a second   *)
(* solver, built over a copy of the same initial volume, runs once with 2N.*)

InitContinuation ==
    /\ \E l \in StackLists, a \in Alphas, im \in IterMaxs \cup {PyInt(1)},
          r \in Rhos, n \in IterationCounts :
            solver = ADMMSolver(l, 1, a, im, lsmr, r, n)
    /\ vols = [id \in VolIds |-> InitialVols[1]]
    /\ stackObjs = InitialStacks
    /\ pc = "idle"
    /\ admm = None
    /\ runs = 0
    /\ nsets = 0
    /\ hist = NoHist
    /\ solver2 = None
    /\ fname = <<None, None>>
    /\ main = None
    /\ error = NoError
    /\ probe = None

RunAgain ==
    /\ runs = 2 => solver.reconstruction = 2
    /\ RunBegin(3)

Rebuild ==
    /\ pc = "idle"
    /\ runs = 2
    /\ solver.reconstruction = 1
    /\ solver' = ADMMSolver(solver.stacks, 2, solver.alpha, solver.iter_max,
                            solver.minimizer, solver.rho,
                            PyInt(2 * solver.iterations.num))
    /\ hist' = [NoHist EXCEPT !.given = 2]
    /\ UNCHANGED <<vols, stackObjs, pc, admm, runs, nsets, solver2, fname,
                 main, error, probe>>

NextContinuation ==
    RunAgain \/ Rebuild \/ XUpdate \/ VUpdate \/ DualUpdate \/ UpdateVolume

SpecContinuation == InitContinuation /\ [][NextContinuation]_vars

\* the same, a reconstruction in progress never being abandoned
LiveContinuation == SpecContinuation /\ WF_pc(Advance)

-----------------------------------------------------------------------------
(* Two configurations that differ in the minimizer at most: one solver     *)
(* runs over a volume; a second one, constructed with the same parameters  *)
(* but any minimizer, runs over a copy of the same initial volume; then    *)
(* both are asked for their configuration strings.                         *)

InitMinimizer ==
    /\ \E l \in StackLists, a \in Alphas, im \in IterMaxs, m \in {lsmr, LBFGSB},
          r \in Rhos, n \in IterationCounts :
            solver = ADMMSolver(l, 1, a, im, m, r, n)
    /\ vols = [id \in VolIds |-> InitialVols[1]]
    /\ stackObjs = InitialStacks
    /\ pc = "idle"
    /\ admm = None
    /\ runs = 0
    /\ nsets = 0
    /\ hist = NoHist
    /\ solver2 = None
    /\ fname = <<None, None>>
    /\ main = None
    /\ error = NoError
    /\ probe = None

\* each solver runs once
RunConfigured ==
    /\ runs = 1 => solver.reconstruction = 2
    /\ RunBegin(2)

\* the second solver takes the place of the first, which is kept aside
Reconfigure ==
    /\ pc = "idle"
    /\ runs = 1
    /\ solver.reconstruction = 1
    /\ \E m \in {lsmr, LBFGSB} :
          solver' = ADMMSolver(solver.stacks, 2, solver.alpha, solver.iter_max,
                               m, solver.rho, solver.iterations)
    /\ solver2' = solver
    /\ hist' = [NoHist EXCEPT !.given = 2, !.last = hist.last]
    /\ UNCHANGED <<vols, stackObjs, pc, admm, runs, nsets, fname, main, error,
                   probe>>

GetFilenames ==
    /\ pc = "idle"
    /\ runs = 2
    /\ fname = <<None, None>>
    /\ fname' = <<get_setting_specific_filename(solver2, Prefix),
                  get_setting_specific_filename(solver, Prefix)>>
    /\ UNCHANGED <<solver, vols, stackObjs, pc, admm, runs, nsets, hist,
                   solver2, main, error, probe>>

NextMinimizer ==
    \/ RunConfigured \/ Reconfigure
    \/ XUpdate \/ VUpdate \/ DualUpdate \/ UpdateVolume
    \/ GetFilenames

SpecMinimizer == InitMinimizer /\ [][NextMinimizer]_vars

-----------------------------------------------------------------------------
(* The v-update on its own: the linear solver stands before a v-update     *)
(* with gradient, dual, rho and alpha drawn from small sets.               *)

ShrinkInputs == -6..6

InitShrink ==
    /\ \E d \in ShrinkInputs, m1 \in {-1, 0, 1}, m2 \in {-3, 0, 1},
          r \in {RInt(1), <<1, 2>>}, a \in {RInt(0), RInt(1), RInt(2), <<1, 2>>} :
            admm = [ADMMLinearSolver(<<>>, <<>>, <<RInt(0), RInt(d)>>, RInt(d),
                                     RInt(1), a, "linear", lsmr, 10, r, 1)
                        EXCEPT !.mu = <<RInt(m1), RInt(m2)>>]
    /\ pc = "v_update"
    /\ solver = ADMMSolver(<<>>, 1, PyInt(1), PyInt(10), lsmr, PyInt(1), PyInt(1))
    /\ vols = InitialVols
    /\ stackObjs = InitialStacks
    /\ runs = 1
    /\ nsets = 0
    /\ hist = NoHist
    /\ solver2 = None
    /\ fname = <<None, None>>
    /\ main = None
    /\ error = NoError
    /\ probe = None

SpecShrink == InitShrink /\ [][VUpdate]_vars

-----------------------------------------------------------------------------
(* The reconstruction script (reconstructRestingStateVolume.py) from the   *)
(* point where the stacks are preprocessed and the HR volume exists.  An   *)
(* object id names a Stack object: vols[id] is its image, stackObjs[id]    *)
(* its slices.  Object 1 is HR_volume, objects 2 and 3 are the stacks.     *)

Min(a, b) == IF a < b THEN a ELSE b
Max(a, b) == IF a < b THEN b ELSE a

\* Python's l[a:b] for non-negative a and b (a and b count from 0)
PySlice(l, a, b) == [k \in 1..Max(0, Min(b, Len(l)) - a) |-> l[a + k]]

\* Python's l.insert(0, e)
insert0(l, e) == <<e>> \o l

TikhonovSolver(stacks, reconstruction, alpha, iter_max, reg_type, minimizer, data_loss) ==
    [stacks |-> stacks,
     reconstruction |-> reconstruction,
     alpha_cut |-> PyInt(3),
     alpha |-> alpha,
     iter_max |-> iter_max,
     minimizer |-> minimizer,
     deconvolution_mode |-> "full_3D",
     predefined_covariance |-> None,
     verbose |-> 0,
     residual_ell2 |-> None,
     residual_prior |-> None,
     computational_time |-> None,
     reg_type |-> reg_type,
     data_loss |-> data_loss]

\* Stack.from_stack: a new object with the image and the slices of another
from_stack(vs, objs, id) ==
    [vols |-> Append(vs, vs[id]), stackObjs |-> Append(objs, objs[id]),
     id |-> Len(vs) + 1]

Regularizations == {"TK0", "TK1", "TV", "L1"}
Minimizers == {lsmr, LBFGSB}
DataLosses == {"linear", "soft_l1", "huber"}
TargetStackIndices == {0, 1}
StackReconRanges == {1, 2}
TwoStepCycles == {0, 1, 2}

\* the parsed command line
ArgSets ==
    [regularization : Regularizations, minimizer : Minimizers,
     data_loss : DataLosses, target_stack_index : TargetStackIndices,
     stack_recon_range : StackReconRanges, two_step_cycles : TwoStepCycles,
     alpha : {PyFloat(1, 2)}, alpha_final : {PyFloat(1, 1)},
     iter_max : {PyInt(10)}, iter_max_final : {PyInt(2)},
     rho : {PyFloat(1, 2)}, ADMM_iterations : {PyInt(1)}]

\* the images and slices of HR_volume and of the two preprocessed stacks
PipelineVols ==
    <<InitialVols[1],
      [itk |-> <<RInt(2), RInt(6)>>, sitk |-> <<RInt(2), RInt(6)>>,
       spacing |-> RInt(1)],
      InitialVols[2]>>

PipelineStacks == <<<<>>, InitialStacks[1], InitialStacks[2]>>

\* the same stacks, the mask of one slice having a pixel too many
MismatchedStacks == [PipelineStacks EXCEPT ![2][2].mask = 2]

InitPipeline ==
    /\ \E a \in ArgSets :
          main = [args |-> a, at |-> "global_registration",
                  stacks |-> <<2, 3>>,
                  HR_volume_iterations |-> <<>>, class |-> None,
                  i_cycle |-> 0, i_stack |-> 0, i |-> 0, runs |-> 0,
                  stacks_recon |-> <<None, None>>,
                  global_registrations |-> 0, slice_registrations |-> 0]
    /\ solver = None
    /\ vols = PipelineVols
    /\ stackObjs \in {PipelineStacks, MismatchedStacks}
    /\ pc = "idle"
    /\ admm = None
    /\ runs = 0
    /\ nsets = 0
    /\ hist = NoHist
    /\ solver2 = None
    /\ fname = <<None, None>>
    /\ error = NoError
    /\ probe = None

\* the script dies with an uncaught exception
Raise(e) ==
    /\ main' = [main EXCEPT !.at = "failed"]
    /\ error' = e

\* a rigid transform along the grid: a slice moves by d voxels (position 0
\* and every position beyond the last voxel lie outside the grid)
Shifts == {-1, 0, 1}
update_motion_correction(sl, d) ==
    [k \in 1..Len(sl) |->
        [sl[k] EXCEPT !.pos = IF sl[k].pos + d \in Voxels
                               THEN sl[k].pos + d ELSE 0]]

\* lines 386-424: with two_step_cycles > 0, every stack but the first is
\* rigidly registered to the first one and moved as a whole
GlobalRegistration ==
    /\ main.at = "global_registration"
    /\ IF main.args.two_step_cycles > 0
       THEN /\ \E d \in [2..Len(main.stacks) -> Shifts] :
                  stackObjs' = [id \in DOMAIN stackObjs |->
                      IF \E i \in 2..Len(main.stacks) : main.stacks[i] = id
                      THEN update_motion_correction(stackObjs[id],
                              d[CHOOSE i \in 2..Len(main.stacks) :
                                    main.stacks[i] = id])
                      ELSE stackObjs[id]]
            /\ main' = [main EXCEPT !.at = "visualization",
                            !.global_registrations = Len(main.stacks) - 1]
            /\ hist' = Op("update_motion_correction")
       ELSE /\ main' = [main EXCEPT !.at = "visualization"]
            /\ UNCHANGED <<stackObjs, hist>>
    /\ UNCHANGED <<solver, vols, pc, admm, runs, nsets, solver2, fname, error,
                   probe>>

\* lines 455-458: the initial volume (a copy) and the stacks at indices
\* target_stack_index .. target_stack_index + stack_recon_range - 1
Visualization ==
    /\ main.at = "visualization"
    /\ LET lo == main.args.target_stack_index
           hi == main.args.target_stack_index + main.args.stack_recon_range
           c  == from_stack(vols, stackObjs, HR_volume)
       IN  /\ vols' = c.vols
           /\ stackObjs' = c.stackObjs
           /\ IF hi > Len(main.stacks)
              THEN Raise("IndexError")
              ELSE /\ main' = [main EXCEPT
                          !.at = "construct",
                          !.HR_volume_iterations =
                              <<c.id>> \o [k \in 1..(hi - lo) |->
                                              main.stacks[lo + k]]]
                   /\ error' = error
    /\ UNCHANGED <<solver, pc, admm, runs, nsets, hist, solver2, fname, probe>>

\* a construction that leaves the data loss of the TikhonovSolver at its
\* default
construct_solver_default_loss(a, stacks) ==
    IF a.regularization \in {"TK0", "TK1"}
    THEN [class |-> "TikhonovSolver",
          solver |-> TikhonovSolver(
                        PySlice(stacks, a.target_stack_index,
                                a.stack_recon_range),
                        HR_volume, a.alpha, a.iter_max, a.regularization,
                        a.minimizer, "linear")]
    ELSE IF a.regularization = "TV"
    THEN [class |-> "ADMMSolver",
          solver |-> ADMMSolver(stacks, HR_volume, a.alpha, a.iter_max,
                                a.minimizer, a.rho, a.ADMM_iterations)]
    ELSE [class |-> None, solver |-> None]

\* a construction whose last branch takes every regularization that is not
\* a Tikhonov one
construct_solver_else_admm(a, stacks) ==
    IF a.regularization \in {"TK0", "TK1"}
    THEN [class |-> "TikhonovSolver",
          solver |-> TikhonovSolver(
                        PySlice(stacks, a.target_stack_index,
                                a.stack_recon_range),
                        HR_volume, a.alpha, a.iter_max, a.regularization,
                        a.minimizer, a.data_loss)]
    ELSE [class |-> "ADMMSolver",
          solver |-> ADMMSolver(stacks, HR_volume, a.alpha, a.iter_max,
                                a.minimizer, a.rho, a.ADMM_iterations)]

\* lines 463-484: the solver object, by regularization type; no branch
\* binds SRR for any other value
construct_solver(a, stacks) ==
    IF a.regularization \in {"TK0", "TK1"}
    THEN [class |-> "TikhonovSolver",
          solver |-> TikhonovSolver(
                        PySlice(stacks, a.target_stack_index,
                                a.stack_recon_range),
                        HR_volume, a.alpha, a.iter_max, a.regularization,
                        a.minimizer, a.data_loss)]
    ELSE IF a.regularization = "TV"
    THEN [class |-> "ADMMSolver",
          solver |-> ADMMSolver(stacks, HR_volume, a.alpha, a.iter_max,
                                a.minimizer, a.rho, a.ADMM_iterations)]
    ELSE [class |-> None, solver |-> None]

Construct ==
    /\ main.at = "construct"
    /\ LET c == construct_solver(main.args, main.stacks)
       IN  /\ solver' = c.solver
           /\ main' = [main EXCEPT !.class = c.class,
                   !.at = IF main.args.two_step_cycles > 0
                          THEN "registration" ELSE "final"]
    /\ UNCHANGED <<vols, stackObjs, pc, admm, runs, nsets, hist, solver2, fname,
                   error, probe>>

\* the Tikhonov normal equations  (A_adj A + alpha L_adj L) x = A_adj b,
\* L the identity (TK0) or the gradient (TK1)
tk_normal_op(self, sl, h, x) ==
    VAdd(get_A_adj(sl, get_A(sl, x)),
         VScale(PyVal(self.alpha),
                IF self.reg_type = "TK0" THEN x
                ELSE grad_adj(grad(x, h), h)))

\* the linear least-squares solve, warm-started at x0
tk_lsmr(self, sl, h, x0) ==
    LET r   == get_A_adj(sl, get_b(sl))
        g   == VSub(r, tk_normal_op(self, sl, h, x0))
        Ng  == tk_normal_op(self, sl, h, g)
        c1  == tk_normal_op(self, sl, h, UnitVec(1))
        c2  == tk_normal_op(self, sl, h, UnitVec(2))
        det == RSub(RMul(c1[1], c2[2]), RMul(c2[1], c1[2]))
    IN  IF self.iter_max.num <= 0 \/ g = VZero(2) THEN x0
        ELSE IF self.iter_max.num = 1 \/ det = RZero
        THEN VAdd(x0, VScale(RDiv(Dot(g, Ng), Dot(Ng, Ng)), g))
        ELSE <<RDiv(RSub(RMul(r[1], c2[2]), RMul(c2[1], r[2])), det),
               RDiv(RSub(RMul(c1[1], r[2]), RMul(r[1], c1[2])), det)>>

\* TikhonovSolver.run: the error that ends it, or the volumes it may leave
\* (the bounded quasi-Newton minimizer stops at the warm start or at the
\* least-squares solution)
tikhonov_run(self, vs, objs) ==
    LET sl == Slices(objs, self.stacks)
        h  == vs[self.reconstruction].spacing
        x0 == get_x0(self, vs)
        e  == build_error(self, vs, objs)
    IN  IF self.data_loss # "linear" /\ self.minimizer = lsmr
        THEN [error |-> "UnsupportedConfigurationError", built |-> <<>>,
              x |-> {}]
        ELSE IF e # NoError THEN [error |-> e, built |-> <<>>, x |-> {}]
        ELSE [error |-> NoError, built |-> Operators,
              x |-> IF self.minimizer = lsmr THEN {tk_lsmr(self, sl, h, x0)}
                    ELSE {x0, tk_lsmr(self, sl, h, x0)}]

\* a loop that leaves for the reconstruction after the first stack
after_registration_first_stack(m, n) ==
    [m EXCEPT !.i_stack = 0, !.at = "set_alpha",
              !.slice_registrations = @ + n]

\* lines 525-526: the n slices of stack i_stack are registered; the next
\* stack follows, or after the last one the reconstruction
after_registration(m, n) ==
    IF m.i_stack + 1 < Len(m.stacks)
    THEN [m EXCEPT !.i_stack = m.i_stack + 1, !.slice_registrations = @ + n]
    ELSE [m EXCEPT !.i_stack = 0, !.at = "set_alpha",
                   !.slice_registrations = @ + n]

\* lines 525-544: slice-to-volume registration of the slices of one stack
Registration ==
    /\ main.at = "registration"
    /\ LET id == main.stacks[main.i_stack + 1]
       IN  \E q \in [1..Len(stackObjs[id]) -> Positions] :
              stackObjs' = [stackObjs EXCEPT ![id] =
                  [k \in 1..Len(stackObjs[id]) |->
                      [stackObjs[id][k] EXCEPT !.pos = q[k]]]]
    /\ main' = after_registration(main,
                  Len(stackObjs[main.stacks[main.i_stack + 1]]))
    /\ hist' = Op("update_motion_correction")
    /\ UNCHANGED <<solver, vols, pc, admm, runs, nsets, solver2, fname, error,
                   probe>>

\* a schedule that reaches alpha_final in the last cycle
cycle_alpha_inclusive(a, i_cycle) ==
    LET steps == IF a.two_step_cycles > 1 THEN a.two_step_cycles - 1 ELSE 1
        alpha_delta == RDiv(RSub(PyVal(a.alpha_final), PyVal(a.alpha)),
                            RInt(steps))
        alpha == RAdd(PyVal(a.alpha), RMul(RInt(i_cycle), alpha_delta))
    IN  PyFloat(alpha[1], alpha[2])

\* lines 488-489 and 556: args.alpha + i_cycle*alpha_delta (a float)
cycle_alpha(a, i_cycle) ==
    LET alpha_delta == RDiv(RSub(PyVal(a.alpha_final), PyVal(a.alpha)),
                            RInt(a.two_step_cycles))
        alpha == RAdd(PyVal(a.alpha), RMul(RInt(i_cycle), alpha_delta))
    IN  PyFloat(alpha[1], alpha[2])

\* line 556: the first use of SRR when two_step_cycles > 0
CycleSetAlpha ==
    /\ main.at = "set_alpha"
    /\ IF solver = None
       THEN /\ Raise("NameError")
            /\ UNCHANGED <<solver, hist>>
       ELSE /\ solver' = set_alpha(solver, cycle_alpha(main.args, main.i_cycle))
            /\ main' = [main EXCEPT !.at = "run"]
            /\ hist' = Op("set_alpha")
            /\ error' = error
    /\ UNCHANGED <<vols, stackObjs, pc, admm, runs, nsets, solver2, fname,
                   probe>>

Running == main.at \in {"run", "final_run"} /\ pc = "idle" /\ runs = main.runs
Returned == main.at \in {"run", "final_run"} /\ pc = "idle" /\ runs = main.runs + 1

\* lines 557 and 580 with an ADMMSolver: the run starts ...
RunADMM ==
    /\ Running
    /\ main.class = "ADMMSolver"
    /\ RunBegin(runs + 1)

\* ... or ends at once with an error
RunADMMFails ==
    /\ Running
    /\ main.class = "ADMMSolver"
    /\ LET e == run_reconstruction_entry(solver, vols, stackObjs)
       IN  /\ e.error # NoError
           /\ Raise(e.error)
           /\ stackObjs' = e.stackObjs
           /\ hist' = [hist EXCEPT !.op = "run", !.built = e.built,
                                   !.entry = vols[solver.reconstruction]]
    /\ runs' = runs + 1
    /\ UNCHANGED <<solver, vols, pc, admm, nsets, solver2, fname, probe>>

\* lines 557 and 580 with a TikhonovSolver
RunTikhonov ==
    /\ Running
    /\ main.class = "TikhonovSolver"
    /\ LET out == tikhonov_run(solver, vols, stackObjs)
       IN  IF out.error # NoError
           THEN /\ Raise(out.error)
                /\ hist' = [hist EXCEPT !.op = "run", !.built = out.built,
                                        !.entry = vols[solver.reconstruction]]
                /\ UNCHANGED <<solver, vols>>
           ELSE \E x \in out.x :
                /\ vols' = update_volume(solver, vols, x)
                /\ solver' = [solver EXCEPT !.computational_time = "measured"]
                /\ hist' = [hist EXCEPT !.op = "run", !.built = out.built,
                                        !.x0 = get_x0(solver, vols),
                                        !.entry = vols[solver.reconstruction],
                                        !.written = x]
                /\ UNCHANGED <<main, error>>
    /\ runs' = runs + 1
    /\ UNCHANGED <<stackObjs, pc, admm, nsets, solver2, fname, probe>>

\* lines 560-568: the masked copy of the HR volume is put in front of the
\* list of iterations
CycleCollect ==
    /\ Returned
    /\ main.at = "run"
    /\ LET c == from_stack(vols, stackObjs, HR_volume)
       IN  /\ vols' = c.vols
           /\ stackObjs' = c.stackObjs
           /\ main' = [main EXCEPT
                  !.HR_volume_iterations = insert0(@, c.id),
                  !.i_cycle = @ + 1,
                  !.runs = @ + 1,
                  !.at = IF main.i_cycle + 1 < main.args.two_step_cycles
                         THEN "registration" ELSE "final"]
    /\ fname' = IF main.class = "ADMMSolver"
                THEN [fname EXCEPT ![1] =
                        <<"I", "t", "e", "r">> \o str(PyInt(main.i_cycle + 1))
                        \o <<"_">>
                        \o get_setting_specific_filename(solver, Prefix)]
                ELSE fname
    /\ UNCHANGED <<solver, pc, admm, runs, nsets, hist, solver2, error, probe>>

\* lines 572-575; line 573 is the first use of SRR when two_step_cycles = 0
Final ==
    /\ main.at = "final"
    /\ IF solver = None
       THEN /\ Raise("NameError")
            /\ UNCHANGED <<solver, hist>>
       ELSE /\ solver' = set_iter_max(set_alpha(solver, main.args.alpha_final),
                                      main.args.iter_max_final)
            /\ main' = [main EXCEPT !.at = "final_set", !.i = 0,
                      !.stacks_recon = [k \in 1..Len(main.stacks) |-> None]]
            /\ hist' = Op("set_iter_max")
            /\ error' = error
    /\ UNCHANGED <<vols, stackObjs, pc, admm, runs, nsets, solver2, fname,
                   probe>>

\* a final step that hands the solver the stack itself
final_set_no_copy(self, vs, objs, id) ==
    [solver |-> set_reconstruction(set_stacks(self, <<id>>), id),
     vols |-> vs, stackObjs |-> objs]

\* lines 577-578: the solver gets a copy of stack i as its only stack and
\* another copy as its reconstruction
final_set(self, vs, objs, id) ==
    LET c1 == from_stack(vs, objs, id)
        c2 == from_stack(c1.vols, c1.stackObjs, id)
    IN  [solver |-> set_reconstruction(set_stacks(self, <<c1.id>>), c2.id),
         vols |-> c2.vols, stackObjs |-> c2.stackObjs]

FinalSet ==
    /\ main.at = "final_set"
    /\ LET out == final_set(solver, vols, stackObjs, main.stacks[main.i + 1])
       IN  /\ solver' = out.solver
           /\ vols' = out.vols
           /\ stackObjs' = out.stackObjs
           /\ hist' = [hist EXCEPT !.op = "set_reconstruction",
                           !.written = None,
                           !.given = out.solver.reconstruction]
    /\ main' = [main EXCEPT !.at = "final_run"]
    /\ UNCHANGED <<pc, admm, runs, nsets, solver2, fname, error, probe>>

\* lines 584-586
FinalCollect ==
    /\ Returned
    /\ main.at = "final_run"
    /\ main' = [main EXCEPT
           !.stacks_recon[main.i + 1] = get_reconstruction(solver),
           !.i = @ + 1,
           !.runs = @ + 1,
           !.at = IF main.i + 1 < Len(main.stacks) THEN "final_set"
                  ELSE "done"]
    /\ UNCHANGED <<solver, vols, stackObjs, pc, admm, runs, nsets, hist,
                   solver2, fname, error, probe>>

NextPipeline ==
    \/ GlobalRegistration
    \/ Visualization \/ Construct
    \/ Registration \/ CycleSetAlpha
    \/ RunADMM \/ RunADMMFails \/ RunTikhonov
    \/ XUpdate \/ VUpdate \/ DualUpdate \/ UpdateVolume
    \/ CycleCollect
    \/ Final \/ FinalSet \/ FinalCollect

SpecPipeline == InitPipeline /\ [][NextPipeline]_vars

-----------------------------------------------------------------------------
(* The gradient operators on their own: a volume x and a vector field z on *)
(* a grid of three voxels, and their images under grad and grad_adj.       *)

ProbeSamples == {-1, 0, 2}
ProbeSpacings == {RInt(1), RInt(2), <<1, 2>>}

InitGradient ==
    /\ \E x \in [1..3 -> ProbeSamples], z \in [1..3 -> ProbeSamples],
          h \in ProbeSpacings :
            probe = [x |-> [i \in 1..3 |-> RInt(x[i])],
                     z |-> [i \in 1..3 |-> RInt(z[i])],
                     spacing |-> h, Dx |-> None, Dz |-> None]
    /\ solver = None
    /\ vols = InitialVols
    /\ stackObjs = InitialStacks
    /\ pc = "idle"
    /\ admm = None
    /\ runs = 0
    /\ nsets = 0
    /\ hist = NoHist
    /\ solver2 = None
    /\ fname = <<None, None>>
    /\ main = None
    /\ error = NoError

ApplyGradient ==
    /\ probe.Dx = None
    /\ probe' = [probe EXCEPT !.Dx = grad(probe.x, probe.spacing),
                              !.Dz = grad_adj(probe.z, probe.spacing)]
    /\ UNCHANGED <<solver, vols, stackObjs, pc, admm, runs, nsets, hist,
                   solver2, fname, main, error>>

SpecGradient == InitGradient /\ [][ApplyGradient]_vars

-----------------------------------------------------------------------------
(* The adjoint on its own: the contributions of the slices to A_adj r are  *)
(* added to one volume-shaped accumulator, one slice at a time, in any     *)
(* order (as workers that each take slices would add them).                *)

\* an accumulation that keeps the accumulator non-negative
accumulate_clipping(acc, s, rk) ==
    IF s.pos \in Voxels
    THEN [acc EXCEPT ![s.pos] = RMax(RAdd(@, rk), RZero)]
    ELSE acc

\* the contribution of one slice is added to the accumulator (a slice
\* outside the grid contributes nothing)
accumulate(acc, s, rk) ==
    IF s.pos \in Voxels THEN [acc EXCEPT ![s.pos] = RAdd(@, rk)] ELSE acc

AdjointSlices == 3

InitAdjoint ==
    /\ \E q \in [1..AdjointSlices -> Positions],
          r \in [1..AdjointSlices -> ProbeSamples] :
            probe = [sl |-> [k \in 1..AdjointSlices |->
                                [val |-> RZero, pos |-> q[k], mask |-> 1]],
                     r |-> [k \in 1..AdjointSlices |-> RInt(r[k])],
                     acc |-> VZero(2), done |-> {}, order |-> <<>>]
    /\ solver = None
    /\ vols = InitialVols
    /\ stackObjs = InitialStacks
    /\ pc = "idle"
    /\ admm = None
    /\ runs = 0
    /\ nsets = 0
    /\ hist = NoHist
    /\ solver2 = None
    /\ fname = <<None, None>>
    /\ main = None
    /\ error = NoError

\* the contribution of some slice not yet accumulated is added
Accumulate ==
    /\ \E k \in (1..Len(probe.sl)) \ probe.done :
          probe' = [probe EXCEPT
                       !.acc = accumulate(@, probe.sl[k], probe.r[k]),
                       !.done = @ \cup {k},
                       !.order = Append(@, k)]
    /\ UNCHANGED <<solver, vols, stackObjs, pc, admm, runs, nsets, hist,
                   solver2, fname, main, error>>

SpecAdjoint == InitAdjoint /\ [][Accumulate]_vars

-----------------------------------------------------------------------------
(* Resampling of 2D images (MyImageProcessingFunctions.resampling, order   *)
(* 0).  An image is a sequence of rows; pixel (i, j), counted from 0 as in *)
(* the code, is image[i + 1][j + 1].                                       *)

shape(image) == <<Len(image), Len(image[1])>>

\* the largest integer not above the rational a
Floor(a) == a[1] \div a[2]

\* np.round: to the nearest integer, a half to the even neighbour
np_round(a) ==
    LET f == Floor(a)
        twice == RSub(RMul(RInt(2), a), RInt(2 * f))
    IN  IF RLess(twice, RInt(1)) THEN f
        ELSE IF RLess(RInt(1), twice) THEN f + 1
        ELSE IF f % 2 = 0 THEN f ELSE f + 1

\* transformation.dot((i, j, 1)): the first two coordinates
dot(transformation, i, j) ==
    [c \in 1..2 |->
        RAdd(RAdd(RMul(transformation[c][1], RInt(i)),
                  RMul(transformation[c][2], RInt(j))),
             transformation[c][3])]

\* lines 260-286: the pixel-by-pixel path
resampling_intuitive(reference, floating, transformation, padding) ==
    [i1 \in 1..shape(reference)[1] |->
        [j1 \in 1..shape(reference)[2] |->
            LET floating_position == dot(transformation, i1 - 1, j1 - 1)
            IN  IF /\ RLeq(RZero, floating_position[1])
                   /\ RLeq(RZero, floating_position[2])
                   /\ RLeq(floating_position[1], RInt(shape(floating)[1] - 1))
                   /\ RLeq(floating_position[2], RInt(shape(floating)[2] - 1))
                THEN floating[np_round(floating_position[1]) + 1]
                             [np_round(floating_position[2]) + 1]
                ELSE padding]]

\* lines 216-256: the vectorised path, the one the function takes
\* (flag_fast_computation = 1); padding is not read
resampling(reference, floating, transformation, order, padding) ==
    [i1 \in 1..shape(reference)[1] |->
        [j1 \in 1..shape(reference)[2] |->
            LET floating_position == dot(transformation, i1 - 1, j1 - 1)
                r0 == np_round(floating_position[1])
                r1 == np_round(floating_position[2])
                c0 == IF r0 < 0 \/ r0 >= shape(floating)[1] THEN 0 ELSE r0
                c1 == IF r1 < 0 \/ r1 >= shape(floating)[2] THEN 0 ELSE r1
                index == c1 + c0 * shape(floating)[2]
            IN  floating[(index \div shape(floating)[2]) + 1]
                        [(index % shape(floating)[2]) + 1]]]

Intensities == {1, 2}
Paddings == {0, 9}
Translations == {RInt(-1), RZero, <<1, 2>>, RInt(1)}

\* rigid transformations of the pixel grid: translations, and the rotation
\* by a quarter turn
Transformations ==
    {<<<<RInt(1), RZero, tx>>, <<RZero, RInt(1), ty>>, <<RZero, RZero, RInt(1)>>>> :
        tx \in Translations, ty \in Translations}
    \cup {<<<<RZero, RInt(1), RZero>>, <<RInt(-1), RZero, RZero>>,
            <<RZero, RZero, RInt(1)>>>>}

InitResampling ==
    /\ \E f \in [1..2 -> [1..2 -> Intensities]], t \in Transformations,
          p \in Paddings :
            probe = [reference |-> <<<<0, 0>>, <<0, 0>>>>, floating |-> f,
                     transformation |-> t, padding |-> p,
                     warped_image |-> None, intuitive |-> None]
    /\ solver = None
    /\ vols = InitialVols
    /\ stackObjs = InitialStacks
    /\ pc = "idle"
    /\ admm = None
    /\ runs = 0
    /\ nsets = 0
    /\ hist = NoHist
    /\ solver2 = None
    /\ fname = <<None, None>>
    /\ main = None
    /\ error = NoError

\* resampling(reference, floating, transformation, order=0, padding=p) is
\* called; next to its result, what the pixel-by-pixel path computes
Resample ==
    /\ probe.warped_image = None
    /\ probe' = [probe EXCEPT
          !.warped_image = resampling(probe.reference, probe.floating,
                                      probe.transformation, 0, probe.padding),
          !.intuitive = resampling_intuitive(probe.reference, probe.floating,
                                      probe.transformation, probe.padding)]
    /\ UNCHANGED <<solver, vols, stackObjs, pc, admm, runs, nsets, hist,
                   solver2, fname, main, error>>

SpecResampling == InitResampling /\ [][Resample]_vars

-----------------------------------------------------------------------------
(* The FLIRT registration method (FLIRT.py).  A string is the sequence of  *)
(* the pieces it was put together from; + on strings gives a new string    *)
(* and leaves its operands as they are.                                    *)

FLIRT(use_verbose, registration_type, options) ==
    [use_verbose |-> use_verbose, registration_type |-> registration_type,
     options |-> options, registration_method |-> None]

set_options(self, options) == [self EXCEPT !.options = options]

get_options(self) == self.options

set_registration_type(self, registration_type) ==
    [self EXCEPT !.registration_type = registration_type]

\* the options of one run, as _run_registration extends its local string
run_options(self) ==
    LET options0 == self.options
        options1 == IF self.registration_type = "Rigid"
                    THEN options0 \o <<" -dof 6">>
                    ELSE IF self.registration_type = "Affine"
                    THEN options0 \o <<" -dof 12">>
                    ELSE options0
    IN  IF self.use_verbose THEN options1 \o <<" -verbose 1">> ELSE options1

\* a _run_registration whose += extends the stored options themselves
run_registration_in_place(self) ==
    [self EXCEPT !.options = run_options(self),
                 !.registration_method = [options |-> run_options(self)]]

\* _run_registration: the external tool is set up with the extended
\* options; self._options is read, never assigned
run_registration(self) ==
    [self EXCEPT !.registration_method = [options |-> run_options(self)]]

MaxRegistrations == 2

OptionStrings == {<<>>, <<"-nosearch">>, <<"-cost normcorr", " -dof 6">>}
RegistrationTypes == {"Rigid", "Affine"}

InitFLIRT ==
    /\ \E v \in BOOLEAN, t \in RegistrationTypes, o \in OptionStrings :
          probe = [self |-> FLIRT(v, t, o), given |-> o, nruns |-> 0,
                   op |-> "init"]
    /\ solver = None
    /\ vols = InitialVols
    /\ stackObjs = InitialStacks
    /\ pc = "idle"
    /\ admm = None
    /\ runs = 0
    /\ nsets = 0
    /\ hist = NoHist
    /\ solver2 = None
    /\ fname = <<None, None>>
    /\ main = None
    /\ error = NoError

FlirtFrame == UNCHANGED <<solver, vols, stackObjs, pc, admm, runs, nsets, hist, solver2, fname, main, error>>

SetOptions ==
    /\ \E o \in OptionStrings :
          probe' = [probe EXCEPT !.self = set_options(@, o), !.given = o,
                                 !.op = "set_options"]
    /\ FlirtFrame

SetRegistrationType ==
    /\ \E t \in RegistrationTypes :
          probe' = [probe EXCEPT !.self = set_registration_type(@, t),
                                 !.op = "set_registration_type"]
    /\ FlirtFrame

RunRegistration ==
    /\ probe.nruns < MaxRegistrations
    /\ probe' = [probe EXCEPT !.self = run_registration(@),
                              !.nruns = @ + 1, !.op = "run_registration"]
    /\ FlirtFrame

NextFLIRT == SetOptions \/ SetRegistrationType \/ RunRegistration

SpecFLIRT == InitFLIRT /\ [][NextFLIRT]_vars

-----------------------------------------------------------------------------
(* Properties of the configuration string.                                 *)

BothNamed == fname[1] # None /\ fname[2] # None

\* the two solvers agree, as Python values, on every parameter of the string
SameParameters ==
    /\ Len(solver.stacks) = Len(solver2.stacks)
    /\ solver.minimizer = solver2.minimizer
    /\ PyEq(solver.alpha, solver2.alpha)
    /\ PyEq(solver.iter_max, solver2.iter_max)
    /\ PyEq(solver.rho, solver2.rho)
    /\ PyEq(solver.iterations, solver2.iterations)

\* C1: two solvers that differ in stack count, minimizer, alpha, iter_max,
\* rho or ADMM iteration count get different configuration strings (same
\* prefix).
C1_DistinctNames == (BothNamed /\ ~SameParameters) => fname[1] # fname[2]

\* C2: two solvers whose parameters are equal as values get the same
\* configuration string, and a string returned earlier is the string a call
\* on the unchanged solver returns now.
C2_StableNames ==
    /\ (BothNamed /\ SameParameters) => fname[1] = fname[2]
    /\ fname[1] # None => fname[1] = get_setting_specific_filename(solver, Prefix)
    /\ fname[2] # None => fname[2] = get_setting_specific_filename(solver2, Prefix)

-----------------------------------------------------------------------------
(* Properties of the ADMM iteration.                                       *)

\* C4: N outer iterations followed by N more leave the reconstruction that
\* one run of 2N outer iterations leaves (volume 1: two runs of N; volume 2:
\* one run of 2N from the same initial samples).
C4_Continuation ==
    (pc = "idle" /\ runs = 3) => vols[2].sitk = vols[1].sitk

\* the reconstruction the solver holds: its samples
Reconstruction == vols[solver.reconstruction]

\* a run has just returned
RunReturned == pc = "idle" /\ hist.op = "run" /\ hist.written # None

\* C3: a run with 0 outer iterations leaves the samples the reconstruction
\* held at entry.
C3_ZeroIterations ==
    (RunReturned /\ solver.iterations.num = 0) =>
        /\ Reconstruction.sitk = hist.entry.sitk
        /\ Reconstruction.itk = hist.entry.itk

\* a second run with 0 outer iterations has returned, on samples the first
\* run had changed
C3_Witness ==
    /\ RunReturned /\ solver.iterations.num = 0 /\ runs = 2
    /\ hist.entry.sitk # InitialVols[solver.reconstruction].sitk
    /\ Reconstruction.sitk = hist.entry.sitk

\* C5: a run that follows another run on the same reconstruction starts
\* from the samples that run wrote.
C5_WarmStart ==
    [][(pc = "idle" /\ pc' = "loop" /\ hist.written # None) =>
          admm'.x0 = hist.written]_vars

\* a second run has started, after a setter call, from samples that are not
\* those the solver was constructed with
C5_Witness ==
    /\ pc = "loop" /\ admm.t = 0 /\ runs = 2 /\ nsets = 1
    /\ hist.written # None
    /\ admm.x0 = hist.written
    /\ admm.x0 # InitialVols[solver.reconstruction].sitk

\* what the v-update is given: D x + mu / rho, and its threshold alpha / rho
VInput == VAdd(grad(admm.x, admm.spacing),
               VScale(RDiv(RInt(1), admm.rho), admm.mu))
VThreshold == RDiv(admm.alpha, admm.rho)

\* C6: after the v-update every component of v is the soft threshold of its
\* input z with threshold t: 0 when |z| <= t, z - t above t, z + t below -t.
C6_SoftThreshold ==
    pc = "dual_update" =>
        \A i \in 1..Len(admm.v) :
            LET z == VInput[i]
                t == VThreshold
            IN  /\ RLeq(RAbs(z), t) => admm.v[i] = RZero
                /\ RLess(t, z) => admm.v[i] = RSub(z, t)
                /\ RLess(z, RNeg(t)) => admm.v[i] = RAdd(z, t)

\* input 5 with threshold 2 gave 3, and input 1 gave 0, in one v-update
C6_Witness ==
    /\ pc = "dual_update"
    /\ VThreshold = RInt(2)
    /\ VInput = <<RInt(5), RInt(1)>>
    /\ admm.v = <<RInt(3), RInt(0)>>

\* C7: a run performs exactly the configured number of outer iterations and
\* then returns.
C7_FixedIterationCount ==
    /\ [](pc # "idle" => admm.t <= solver.iterations.num)
    /\ [][(pc # "idle" /\ pc' = "idle") => admm.t = solver.iterations.num]_vars
    /\ (pc # "idle") ~> (pc = "idle")

\* the counter has reached the configured, non-zero count; the run is about
\* to return
C7_Witness ==
    /\ pc = "loop" /\ solver.iterations.num > 0
    /\ admm.t = solver.iterations.num

\* only the named field of the solver differs after the step
OnlyField(f) ==
    /\ \A g \in DOMAIN solver \ {f} : solver'[g] = solver[g]
    /\ DOMAIN solver' = DOMAIN solver

\* nothing but the solver object is touched and no solve is started
NoSolve ==
    /\ vols' = vols /\ stackObjs' = stackObjs
    /\ pc' = "idle" /\ admm' = admm /\ runs' = runs

Setters ==
    [set_alpha |-> "alpha", set_iter_max |-> "iter_max",
     set_stacks |-> "stacks", set_reconstruction |-> "reconstruction",
     set_rho |-> "rho", set_iterations |-> "iterations"]

\* C8: a setter changes the one field it names and nothing else: not the
\* reconstruction, not the statistics, no other parameter, and it starts no
\* solve.
C8_PureSetters ==
    [][\A op \in DOMAIN Setters :
          hist'.op = op => (OnlyField(Setters[op]) /\ NoSolve)]_vars

\* set_rho has changed rho after a run and a statistics computation
C8_Witness ==
    /\ hist.op = "set_rho" /\ solver.rho = PyInt(1)
    /\ hist.written # None /\ solver.residual_ell2 # None

\* C9: compute_statistics rewrites the stored residual statistic and leaves
\* the reconstruction and every other field of the solver as they were.
C9_StatisticsFrame ==
    [][hist'.op = "compute_statistics" =>
          /\ OnlyField("residual_ell2")
          /\ NoSolve]_vars

\* statistics were computed after a run, with a slice moved out of the grid
C9_Witness ==
    /\ hist.op = "compute_statistics" /\ hist.written # None
    /\ solver.residual_ell2 # None
    /\ stackObjs # InitialStacks

\* the value of the TV regulariser: the l1 norm of the gradient
get_residual_prior(x, h) ==
    LET z == grad(x, h) IN Dot(z, [i \in 1..Len(z) |-> RSign(z[i])])

\* C10: after a run followed by compute_statistics, both statistics are
\* those of the current reconstruction: the data residual and the value of
\* the regularisation term.
C10_FreshStatistics ==
    (pc = "idle" /\ hist.op = "compute_statistics" /\ hist.written # None) =>
        /\ solver.residual_ell2 =
              get_residual_ell2(solver, stackObjs, Reconstruction.sitk)
        /\ solver.residual_prior =
              get_residual_prior(Reconstruction.sitk, Reconstruction.spacing)

-----------------------------------------------------------------------------
(* Properties of the objects the solver shares with its caller.            *)

\* C11: the solver replaces the samples of its reconstruction Volume, never
\* the object: get_reconstruction() is the object given to the constructor
\* or to the last set_reconstruction(), a holder of that object reads the
\* samples the last run produced, and a run touches no other Volume.
C11_SameObject ==
    /\ [](get_reconstruction(solver) = hist.given)
    /\ [](RunReturned =>
            /\ vols[hist.given].sitk = hist.written
            /\ vols[hist.given].itk = hist.written)
    /\ [][pc # "idle" =>
            \A id \in DOMAIN vols \ {hist.given} : vols'[id] = vols[id]]_vars

\* two runs have returned on the object given to set_reconstruction, and
\* its holder reads samples that are neither the initial ones nor those of
\* the constructor's Volume
C11_Witness ==
    /\ RunReturned /\ runs = 2 /\ hist.given # HR_volume
    /\ get_reconstruction(solver) = hist.given
    /\ vols[hist.given].sitk = hist.written
    /\ vols[hist.given].sitk # InitialVols[hist.given].sitk
    /\ vols[hist.given].sitk # vols[HR_volume].sitk

-----------------------------------------------------------------------------
(* Properties of the reconstruction script.                                *)

\* every mask has the size of its slice
MasksMatch ==
    \A id \in DOMAIN stackObjs : \A k \in DOMAIN stackObjs[id] :
        stackObjs[id][k].mask = 1

\* a non-linear data loss was chosen together with the linear minimizer
NonLinearWithLsmr ==
    main.args.data_loss \in {"soft_l1", "huber"} /\ main.args.minimizer = lsmr

\* the script has got to its first run_reconstruction() call
RunReached ==
    \/ runs >= 1
    \/ main.at \in {"run", "final_run"}

\* no run has started a solve or written a reconstruction
NothingProduced ==
    /\ pc = "idle" /\ admm = None
    /\ hist.written = None
    /\ \A id \in DOMAIN vols :
          vols[id] \in {PipelineVols[k] : k \in DOMAIN PipelineVols}
    /\ \A k \in DOMAIN main.stacks_recon : main.stacks_recon[k] = None

\* C12: with a non-linear data loss and the linear minimizer, run() fails
\* with UnsupportedConfigurationError and no reconstruction is produced
\* (stated for stacks whose masks match, so that no other error is due).
C12_NonLinearRejected ==
    (NonLinearWithLsmr /\ MasksMatch) =>
        /\ NothingProduced
        /\ runs >= 1 => error = "UnsupportedConfigurationError"

\* C12, amended: with Tikhonov regularization (TK0 or TK1), a non-linear
\* data loss and the linear minimizer make run() fail with
\* UnsupportedConfigurationError, and no reconstruction is produced.
C12_TikhonovRejects ==
    (NonLinearWithLsmr /\ main.args.regularization \in {"TK0", "TK1"}) =>
        /\ NothingProduced
        /\ runs >= 1 => error = "UnsupportedConfigurationError"

\* the first run of a TikhonovSolver with a huber loss and lsmr has failed,
\* after a cycle of slice registrations
C12_Witness ==
    /\ runs = 1 /\ main.at = "failed"
    /\ main.args.regularization = "TK1" /\ main.args.data_loss = "huber"
    /\ main.args.minimizer = lsmr /\ main.args.two_step_cycles = 1
    /\ solver.data_loss = "huber"
    /\ error = "UnsupportedConfigurationError"
    /\ NothingProduced

\* the configuration and geometry errors of the solver
RunErrors ==
    {"DimensionMismatchError", "InvalidGeometryError",
     "UnsupportedConfigurationError"}

-----------------------------------------------------------------------------
(* Properties of the inner solve.                                          *)

\* C14: an x-update that has not converged within iter_max is accepted: the
\* v-update and the dual update of the same outer iteration follow on that
\* x, no error is raised, the run returns, and every outer iteration has
\* made exactly one inner solve.
C14_InexactAccepted ==
    /\ [](pc \in {"v_update", "dual_update"} => admm.inner = admm.t + 1)
    /\ [](pc = "loop" => admm.inner = admm.t)
    /\ [](error = NoError)
    /\ [][(pc = "v_update" /\ ~Converged(admm)) =>
            (pc' = "dual_update" /\ admm'.x = admm.x /\ admm'.t = admm.t)]_vars
    /\ [][pc = "dual_update" =>
            (pc' = "loop" /\ admm'.x = admm.x /\ admm'.t = admm.t + 1)]_vars
    /\ (pc = "v_update" /\ ~Converged(admm)) ~> (pc = "idle")

\* the one inner iteration allowed has moved x without solving the x-update
C14_Witness ==
    /\ pc = "v_update" /\ admm.iter_max = 1
    /\ ~Converged(admm)
    /\ admm.x # admm.x0
    /\ admm.inner = admm.t + 1

-----------------------------------------------------------------------------
(* Properties of the gradient operators.                                   *)

\* the inner product weighted by the voxel volume
Inner(a, b, h) == RMul(h, Dot(a, b))

\* C15: <grad(x), z> = <x, grad_adj(z)> for every volume x and every vector
\* field z of the grid, grad being the forward difference with zero at the
\* last voxel.
C15_Adjointness ==
    probe.Dx # None =>
        /\ Inner(probe.Dx, probe.z, probe.spacing)
              = Inner(probe.x, probe.Dz, probe.spacing)
        /\ probe.Dx[3] = RZero

\* both sides are the same non-zero number, for a field z that is not zero
\* at the last voxel and a spacing other than 1
C15_Witness ==
    /\ probe.Dx # None
    /\ probe.z[3] # RZero /\ probe.spacing = <<1, 2>>
    /\ Inner(probe.Dx, probe.z, probe.spacing) # RZero
    /\ Inner(probe.Dx, probe.z, probe.spacing)
          = Inner(probe.x, probe.Dz, probe.spacing)

-----------------------------------------------------------------------------
(* Properties of the stacks the script hands to the solver.                *)

\* the stacks at indices target_stack_index .. target_stack_index +
\* stack_recon_range - 1 (indices count from 0)
RangeStacks ==
    [k \in 1..main.args.stack_recon_range |->
        main.stacks[main.args.target_stack_index + k]]

\* C16: a TikhonovSolver is constructed with exactly stack_recon_range
\* stacks, those at indices target_stack_index .. target_stack_index +
\* stack_recon_range - 1, which are the stacks appended for visualization.
C16_ReconRange ==
    (main.class = "TikhonovSolver"
        /\ main.at \in {"registration", "set_alpha", "run", "final"}) =>
        /\ Len(solver.stacks) = main.args.stack_recon_range
        /\ solver.stacks = RangeStacks
        /\ solver.stacks = Tail(main.HR_volume_iterations)

\* C17: when the final step is over, every stacks_recon[i] is an object of
\* its own (not stacks[i] or any input stack, not the HR volume, not another
\* stacks_recon[j]) and every input stack holds the image and the slice
\* intensities it had before the final step.
C17_FreshVolumes ==
    main.at = "done" =>
        \A i \in DOMAIN main.stacks :
            /\ main.stacks_recon[i] \in DOMAIN vols
            /\ main.stacks_recon[i] # HR_volume
            /\ \A j \in DOMAIN main.stacks :
                  /\ main.stacks_recon[i] # main.stacks[j]
                  /\ j # i => main.stacks_recon[i] # main.stacks_recon[j]
            /\ vols[main.stacks[i]] = PipelineVols[main.stacks[i]]
            /\ \A k \in DOMAIN stackObjs[main.stacks[i]] :
                  stackObjs[main.stacks[i]][k].val
                      = PipelineStacks[main.stacks[i]][k].val

\* the final step of a TV reconstruction is over and the reconstruction of
\* the first stack holds samples that are not those of the stack
C17_Witness ==
    /\ main.at = "done" /\ main.class = "ADMMSolver"
    /\ main.stacks_recon[1] \notin {HR_volume, main.stacks[1]}
    /\ vols[main.stacks_recon[1]].sitk # vols[main.stacks[1]].sitk
    /\ vols[main.stacks[1]] = PipelineVols[main.stacks[1]]

\* C18: from the entry to a run to its return, the solver changes no slice
\* (intensity, mask, motion transform) and no element or order of its stack
\* list; the operators in use are those of these slices.
C18_FrozenSlices ==
    /\ [][(pc # "idle" \/ pc' # "idle") =>
            (stackObjs' = stackObjs /\ solver'.stacks = solver.stacks)]_vars
    /\ [](pc # "idle" => admm.A = Slices(stackObjs, solver.stacks))

\* a run has returned on slices the caller's registration had moved
C18_Witness ==
    /\ RunReturned /\ nsets = 1
    /\ stackObjs # InitialStacks
    /\ \E id \in StackIds : \E k \in DOMAIN stackObjs[id] :
          stackObjs[id][k].pos = 0 /\ stackObjs[id][k].val # RZero
    /\ hist.written # hist.x0

-----------------------------------------------------------------------------
(* Properties of the order of the ADMM steps.                              *)

\* the fields of the linear solver other than those named keep their values
AdmmKeeps(fields) ==
    \A f \in DOMAIN admm \ fields : admm'[f] = admm[f]

\* the soft threshold of D x + mu / rho at alpha / rho, written out
Thresholded(x, mu, h, rho, alpha) ==
    [i \in 1..Len(x) |->
        LET z == RAdd(grad(x, h)[i], RDiv(mu[i], rho))
            t == RDiv(alpha, rho)
        IN  IF RLess(t, z) THEN RSub(z, t)
            ELSE IF RLess(z, RNeg(t)) THEN RAdd(z, t)
            ELSE RZero]

\* C19: a run starts from x = x0, v = D x0 and mu = 0; an outer iteration
\* is the x-update, then the v-update on the new x, then the dual update
\* mu + rho (D x - v) on the new x and the new v; the run writes the x of
\* its last outer iteration.
C19_StepOrder ==
    /\ [][(pc = "idle" /\ pc' # "idle") =>
            /\ pc' = "loop"
            /\ admm'.x = admm'.x0 /\ admm'.t = 0
            /\ admm'.v = grad(admm'.x0, admm'.spacing)
            /\ admm'.mu = VZero(Len(admm'.x0))]_vars
    /\ [][(pc = "loop" /\ pc' # "idle") =>
            (pc' = "v_update" /\ AdmmKeeps({"x", "inner"}))]_vars
    /\ [][pc = "v_update" =>
            /\ pc' = "dual_update" /\ AdmmKeeps({"v"})
            /\ admm'.v = Thresholded(admm.x, admm.mu, admm.spacing,
                                     admm.rho, admm.alpha)]_vars
    /\ [][pc = "dual_update" =>
            /\ pc' = "loop" /\ AdmmKeeps({"mu", "t"})
            /\ admm'.t = admm.t + 1
            /\ \A i \in 1..Len(admm.mu) :
                  admm'.mu[i] =
                      RAdd(admm.mu[i],
                           RMul(admm.rho,
                                RSub(grad(admm.x, admm.spacing)[i],
                                     admm.v[i])))]_vars
    /\ [][(pc = "loop" /\ pc' = "idle") =>
            /\ admm.t = admm.iterations
            /\ vols'[solver.reconstruction].sitk = admm.x
            /\ vols'[solver.reconstruction].itk = admm.x]_vars

\* the second v-update of a run has used an x that differs from x0 and a
\* dual that is not zero
C19_Witness ==
    /\ pc = "dual_update" /\ admm.t = 1
    /\ admm.x # admm.x0 /\ admm.mu # VZero(Len(admm.x0))
    /\ grad(admm.x, admm.spacing) # grad(admm.x0, admm.spacing)
    /\ admm.v = Thresholded(admm.x, admm.mu, admm.spacing, admm.rho,
                            admm.alpha)

-----------------------------------------------------------------------------
(* Properties of the data loss under TV regularization.                    *)

\* C20: every linear solver an ADMMSolver run builds has the data loss
\* "linear", whatever --data-loss says, and with TV regularization the
\* choice of soft_l1 or huber raises no error: the script fails only as it
\* fails with the linear loss (a mask of the wrong size, a stack index out
\* of range).
C20_AlwaysLinear ==
    /\ admm # None => admm.data_loss = "linear"
    /\ main.args.regularization = "TV" =>
          /\ error # "UnsupportedConfigurationError"
          /\ (MasksMatch /\ error # "IndexError") => error = NoError

\* with TV, huber and lsmr the script has got to its final step and an
\* inner solve of the second stack's reconstruction has been made
C20_Witness ==
    /\ pc = "v_update" /\ main.at = "final_run" /\ main.i = 1
    /\ main.args.regularization = "TV" /\ main.args.data_loss = "huber"
    /\ main.args.minimizer = lsmr
    /\ admm.data_loss = "linear" /\ admm.inner = 1
    /\ error = NoError

-----------------------------------------------------------------------------
(* Operators are rebuilt at the start of every run.                        *)

\* the operators and the initial value, derived from the solver, the volumes
\* and the slices as they are now
CurrentOperators ==
    LET sl == Slices(stackObjs, solver.stacks)
    IN  [A |-> sl, b |-> get_b(sl), x0 |-> vols[solver.reconstruction].sitk,
         spacing |-> vols[solver.reconstruction].spacing]

OperatorsOf(s) == [A |-> s.A, b |-> s.b, x0 |-> s.x0, spacing |-> s.spacing]

\* C21: every run, the second one included, starts with A, A_adj, b, x0 and
\* the gradient operators derived from the slice transforms, the stack list
\* and the reconstruction volume current at its entry, and keeps them until
\* it returns; operators of an earlier run are never reused.
C21_RebuiltEveryRun ==
    /\ [][(pc = "idle" /\ pc' = "loop") =>
            OperatorsOf(admm') = CurrentOperators]_vars
    /\ [][(pc # "idle" /\ pc' # "idle") =>
            OperatorsOf(admm') = OperatorsOf(admm)]_vars

\* a second run is in progress whose slices, stack list or volume object
\* were changed after the first run returned, and whose operators differ
\* from the first run's
C21_Witness ==
    /\ runs = 2 /\ pc = "loop" /\ hist.last # None
    /\ hist.entry # None
    /\ admm.A # hist.last.A
    /\ admm.x0 # hist.last.x0
    /\ OperatorsOf(admm) = CurrentOperators

-----------------------------------------------------------------------------
(* The scale of the unknown.                                               *)

\* C22: x_scale is computed once per run, as the maximum sample of the
\* reconstruction current at the entry to that run; the linear solver keeps
\* that value through every outer and inner iteration of the run, and a
\* later run computes it again from the volume current then.
C22_ScaleOncePerRun ==
    /\ [][(pc = "idle" /\ pc' = "loop") =>
            admm'.x_scale = VMax(vols[solver.reconstruction].sitk)]_vars
    /\ [](pc # "idle" => admm.x_scale = VMax(hist.entry.sitk))
    /\ [][(pc # "idle" /\ pc' # "idle") => admm'.x_scale = admm.x_scale]_vars

\* the second run has finished an outer iteration: its scale is that of the
\* volume it started from, differs from the scale of the x it holds now and
\* from the scale of the first run
C22_Witness ==
    /\ runs = 2 /\ pc = "loop" /\ admm.t = 1 /\ admm.inner = 1
    /\ hist.last # None
    /\ admm.x_scale = VMax(hist.entry.sitk)
    /\ admm.x_scale # VMax(admm.x)
    /\ admm.x_scale # hist.last.x_scale

-----------------------------------------------------------------------------
(* The accumulation of A_adj.                                              *)

-----------------------------------------------------------------------------
(* The order of the steps of the two-step pipeline.                        *)

\* the number of slices of all stacks
TotalSlices == Len(Slices(stackObjs, main.stacks))

\* a reconstruction of a cycle, or of the final step, starts
CycleRunStarts == main.at = "run" /\ runs' = runs + 1
FinalRunStarts == main.at = "final_run" /\ runs' = runs + 1

\* some slice is registered to the volume
SliceRegistered == main'.slice_registrations # main.slice_registrations

\* C24: in every cycle all slices of all stacks are registered before the
\* cycle's reconstruction starts; a slice of cycle i+1 is registered only
\* when the reconstruction of cycle i has returned; the final per-stack
\* reconstructions start only after the reconstruction of the last cycle;
\* and with two_step_cycles = 0 there is no registration and no cycle
\* reconstruction, only the final step.
C24_StepOrder ==
    /\ [][CycleRunStarts =>
            main.slice_registrations = (main.i_cycle + 1) * TotalSlices]_vars
    /\ [][SliceRegistered =>
            /\ pc = "idle" /\ runs = main.i_cycle /\ main.runs = main.i_cycle
            /\ main.slice_registrations \in
                   (main.i_cycle * TotalSlices)..((main.i_cycle + 1) * TotalSlices - 1)
            /\ main.i_cycle < main.args.two_step_cycles]_vars
    /\ [][FinalRunStarts =>
            /\ main.i_cycle = main.args.two_step_cycles
            /\ main.runs >= main.args.two_step_cycles
            /\ runs = main.args.two_step_cycles + main.i
            /\ main.slice_registrations =
                   main.args.two_step_cycles * TotalSlices]_vars
    /\ [](main.args.two_step_cycles = 0 =>
            /\ main.slice_registrations = 0
            /\ main.global_registrations = 0
            /\ main.at \notin {"registration", "set_alpha", "run"}
            /\ main.i_cycle = 0)

\* two cycles and the final step have been run to the end
C24_Witness ==
    /\ main.at = "done" /\ main.args.two_step_cycles = 2
    /\ main.i_cycle = 2 /\ runs = 4
    /\ main.slice_registrations = 2 * TotalSlices

-----------------------------------------------------------------------------
(* The parameters of the reconstructions of the pipeline.                  *)

\* a is not farther from lo than hi is, on the same side
Between(a, lo, hi) ==
    \/ RLeq(lo, a) /\ RLeq(a, hi)
    \/ RLeq(hi, a) /\ RLeq(a, lo)

\* C25: the reconstruction of cycle i runs with
\* alpha + i*(alpha_final - alpha)/two_step_cycles and with iter_max; that
\* value lies between alpha and alpha_final and, alpha and alpha_final
\* differing, is not alpha_final; the reconstructions of the final step,
\* and only they, run with alpha_final and iter_max_final.
C25_Schedule ==
    /\ [][CycleRunStarts =>
            LET a == main.args
                n == RInt(a.two_step_cycles)
                d == RSub(PyVal(a.alpha_final), PyVal(a.alpha))
            IN  /\ RMul(n, RSub(PyVal(solver.alpha), PyVal(a.alpha))) =
                       RMul(RInt(main.i_cycle), d)
                /\ solver.iter_max = a.iter_max
                /\ Between(PyVal(solver.alpha), PyVal(a.alpha),
                           PyVal(a.alpha_final))
                /\ ~PyEq(a.alpha, a.alpha_final) =>
                       ~PyEq(solver.alpha, a.alpha_final)]_vars
    /\ [][FinalRunStarts =>
            /\ solver.alpha = main.args.alpha_final
            /\ solver.iter_max = main.args.iter_max_final]_vars

\* the second of two cycles runs with alpha 3/4, between 1/2 and 1, and
\* with the iter_max of the cycles, which is not that of the final step
C25_Witness ==
    /\ main.at = "run" /\ main.i_cycle = 1 /\ runs = 2
    /\ main.args.two_step_cycles = 2
    /\ PyVal(solver.alpha) = <<3, 4>>
    /\ solver.iter_max = main.args.iter_max
    /\ main.args.iter_max # main.args.iter_max_final
    /\ ~PyEq(main.args.alpha, main.args.alpha_final)

-----------------------------------------------------------------------------
(* Resampling with padding.                                                *)

\* the pixel of the floating image nearest to the transformed position of
\* reference pixel (i, j)
Nearest(i, j) ==
    LET q == dot(probe.transformation, i, j)
    IN  <<np_round(q[1]), np_round(q[2])>>

\* that pixel does not exist: the position lies outside the floating image
Outside(i, j) ==
    \/ Nearest(i, j)[1] \notin 0..(shape(probe.floating)[1] - 1)
    \/ Nearest(i, j)[2] \notin 0..(shape(probe.floating)[2] - 1)

\* C26: resampling with order 0 gives the padding intensity to every
\* reference pixel whose transformed position lies outside the floating
\* image and the intensity of the nearest floating pixel to every other
\* one, and its result is that of the pixel-by-pixel path.
C26_PaddingOutside ==
    probe.warped_image # None =>
        /\ \A i \in 0..(shape(probe.reference)[1] - 1) :
           \A j \in 0..(shape(probe.reference)[2] - 1) :
              probe.warped_image[i + 1][j + 1] =
                  IF Outside(i, j) THEN probe.padding
                  ELSE probe.floating[Nearest(i, j)[1] + 1][Nearest(i, j)[2] + 1]
        /\ probe.warped_image = probe.intuitive

-----------------------------------------------------------------------------
(* The configured minimizer.                                               *)

\* sub occurs in s as a run of consecutive characters
Contains(s, sub) ==
    \E k \in 0..(Len(s) - Len(sub)) :
        \A j \in 1..Len(sub) : s[k + j] = sub[j]

\* the part of the configuration string that names minimizer m
MinimizerPart(m) == <<"_">> \o m \o <<"_", "a", "l", "p", "h", "a">>

-----------------------------------------------------------------------------
(* The one write of a run.                                                 *)

\* the script is at a reconstruction and its solver is an ADMMSolver
ADMMRuns == main.at \in {"run", "final_run"} /\ "rho" \in DOMAIN solver

\* C28: a run of the ADMMSolver writes the reconstruction once, when the
\* linear solver has returned: from its entry and through the solve every
\* volume stays as it is; a run that ends with an error leaves the itk and
\* the sitk image as they were; a run that succeeds replaces both in its
\* last step, the sitk image being derived from the new itk image, and
\* writes no other volume.
C28_WrittenOnce ==
    /\ [][(ADMMRuns /\ pc' # "idle") => vols' = vols]_vars
    /\ [][(ADMMRuns /\ pc = "idle" /\ error' # error) => vols' = vols]_vars
    /\ [][(ADMMRuns /\ pc # "idle" /\ pc' = "idle") =>
            LET id == solver.reconstruction
            IN  /\ admm.t >= admm.iterations
                /\ DOMAIN vols' = DOMAIN vols
                /\ vols'[id].itk =
                       get_itk_image_from_array_vec(admm.x, vols[id].itk)
                /\ vols'[id].sitk = get_sitk_from_itk_image(vols'[id].itk)
                /\ \A k \in DOMAIN vols \ {id} : vols'[k] = vols[k]]_vars

\* an ADMM run has returned: both images of its reconstruction hold the
\* solver's result, which differs from what the run started from
C28_Witness ==
    /\ main.at = "run" /\ pc = "idle" /\ runs = main.runs + 1
    /\ "rho" \in DOMAIN solver
    /\ hist.written # None
    /\ vols[solver.reconstruction].itk = hist.written
    /\ vols[solver.reconstruction].sitk = hist.written
    /\ hist.entry.sitk # hist.written

-----------------------------------------------------------------------------
(* The options of FLIRT.                                                   *)

\* C29: a registration run leaves the stored options as they are, so that
\* get_options() always returns the string last given to the constructor or
\* to set_options; every run hands the external tool that string followed
\* by one " -dof 6" (Rigid) or one " -dof 12" (Affine) and, when verbose, by
\* one " -verbose 1", whatever the number of runs before it.
C29_OptionsKept ==
    /\ [](get_options(probe.self) = probe.given)
    /\ [][probe'.nruns = probe.nruns + 1 =>
            /\ get_options(probe'.self) = get_options(probe.self)
            /\ probe'.self.registration_method.options =
                   probe.given
                   \o (IF probe.self.registration_type = "Rigid"
                       THEN <<" -dof 6">> ELSE <<" -dof 12">>)
                   \o (IF probe.self.use_verbose
                       THEN <<" -verbose 1">> ELSE <<>>)]_vars

\* after as many runs as there can be, the last one verbose and rigid, the
\* tool has got the stored options and each suffix once
C29_Witness ==
    /\ probe.nruns = MaxRegistrations /\ probe.op = "run_registration"
    /\ get_options(probe.self) = <<"-nosearch">>
    /\ probe.self.registration_method.options =
           <<"-nosearch", " -dof 6", " -verbose 1">>

-----------------------------------------------------------------------------
(* A regularization the script does not know.                              *)

UnknownRegularization == main.args.regularization \notin {"TK0", "TK1", "TV"}

\* no solver exists, no reconstruction was started and none was collected
NoSolverNoRun ==
    /\ solver = None
    /\ runs = 0 /\ pc = "idle" /\ admm = None
    /\ main.at \notin {"run", "final_set", "final_run", "done"}
    /\ \A k \in DOMAIN main.stacks_recon : main.stacks_recon[k] = None

\* the script has ended at its first use of the solver
FailedAtFirstUse == main.at = "failed" /\ error = "NameError"

\* C30: with a regularization other than TK0, TK1 and TV no solver is
\* constructed and no reconstruction completes; the script fails at the
\* first use of the solver, and by then the global rigid registration and,
\* with two_step_cycles > 0, the slice-to-volume registrations of the first
\* cycle have run (stated for a script that gets as far as the solver).
C30_FailsAfterRegistrations ==
    (UnknownRegularization /\ error # "IndexError") =>
        /\ NoSolverNoRun
        /\ main.at = "failed" =>
              /\ error = "NameError"
              /\ main.global_registrations = Len(main.stacks) - 1
              /\ main.args.two_step_cycles > 0 =>
                    main.slice_registrations = TotalSlices

\* C30, amended: with a regularization other than TK0, TK1 and TV no solver
\* is constructed and no reconstruction completes; the script fails at the
\* first use of the solver; with two_step_cycles > 0 the global rigid
\* registration and the slice-to-volume registrations of the first cycle
\* have run by then, with two_step_cycles = 0 no registration at all.
C30_FailsAtFirstUse ==
    (UnknownRegularization /\ error # "IndexError") =>
        /\ NoSolverNoRun
        /\ main.at = "failed" =>
              /\ error = "NameError"
              /\ main.i_cycle = 0
              /\ IF main.args.two_step_cycles > 0
                 THEN /\ main.global_registrations = Len(main.stacks) - 1
                      /\ main.slice_registrations = TotalSlices
                 ELSE /\ main.global_registrations = 0
                      /\ main.slice_registrations = 0

\* with two cycles asked for and regularization L1, the script has failed
\* at SRR.set_alpha of the first cycle, all registrations of that cycle done
C30_Witness ==
    /\ FailedAtFirstUse
    /\ main.args.regularization = "L1" /\ main.args.two_step_cycles = 2
    /\ solver = None /\ runs = 0
    /\ main.global_registrations = 1
    /\ main.slice_registrations = TotalSlices

====
